---- MODULE Spec2Model ----
(***************************************************************************)
(* Connection registry, message/signaling relay and call-matching queue of *)
(* the chat gateway (services/chatService.ts, middleware/callQueue.ts).    *)
(***************************************************************************)
EXTENDS Integers, Sequences, FiniteSets, TLC

VARIABLES
    sockets,         \* per connection: lifecycle, socket.username, socket.isGuest
    connectedUsers,  \* the Map username -> {socket, isGuest}, in insertion order
    queues,          \* CallQueue.queues: partition -> array of entries
    conversations,   \* persisted Conversation documents
    messages,        \* persisted Message documents, in insertion order
    now,             \* Date.now(), in units of 30 minutes
    period,          \* Date.now() within that unit, in scheduler periods
    pending,         \* handlers suspended at an await
    last,            \* the handler step that ran last
    out,             \* the events that step emitted, in order
    offline          \* history: <<message id, participant>> of each fan-out
                     \* that found the participant unregistered

vars == <<sockets, connectedUsers, queues, conversations, messages, now,
          period, pending, last, out, offline>>

(***************************************************************************)
(* Bounds of the model.                                                    *)
(***************************************************************************)
MaxQueue == 3      \* entries queued over all partitions
MaxPending == 1    \* handlers suspended at an await at one time
MaxMessages == 2   \* Message documents stored
MaxTime == 2      \* the clock stops advancing here
MaxPeriods == 3    \* scheduler periods counted within one unit of the clock

None == "none"

Sockets == {"s1", "s2"}

\* Identities known to the identity store.
Users == {"u1", "u2", "g1"}

\* Token payloads signed by the login and guest-login routes.
IsGuestUser(u) == u = "g1"

\* A scan that starts with the female partition.
PartitionsFemaleFirst == <<"female", "male", "other">>

\* Object.entries(this.queues): the partitions in the order of their keys
Partitions == <<"male", "female", "other">>

Preferences == {"male", "female", "any"}

\* Stored user records: gender and genderPreference of the User document.
\* Registration stores no gender (u2), the schema allows one on any record
\* (u1), and a guest record always has one (g1).
UserGender(u) == CASE u = "u1" -> "male" [] u = "g1" -> "female" [] OTHER -> None

UserGenderPreference(u) == CASE u = "g1" -> "male" [] OTHER -> "any"

(***************************************************************************)
(* The registry: a JavaScript Map, an insertion-ordered list of entries    *)
(* with one entry per key.                                                 *)
(***************************************************************************)
MapHas(m, k) == \E i \in DOMAIN m : m[i].username = k

\* connectedUsers.get(k); NoEntry stands for undefined
NoEntry == [username |-> None, socket |-> None, isGuest |-> FALSE]

MapGet(m, k) ==
    IF MapHas(m, k) THEN m[CHOOSE i \in DOMAIN m : m[i].username = k] ELSE NoEntry

\* A registry that adds an entry without replacing the one of the same key.
MapSetAppend(m, k, v) == Append(m, v)

MapSet(m, k, v) ==
    IF MapHas(m, k)
    THEN [i \in DOMAIN m |-> IF m[i].username = k THEN v ELSE m[i]]
    ELSE Append(m, v)

MapDelete(m, k) == SelectSeq(m, LAMBDA e : e.username # k)

\* getUserInfoFromSocket: the first entry, in insertion order, held by the
\* socket; NoUser stands for null.
NoUser == [username |-> None, isGuest |-> FALSE]

getUserInfoFromSocket(m, s) ==
    IF \E i \in DOMAIN m : m[i].socket = s
    THEN LET i == CHOOSE j \in DOMAIN m :
                      /\ m[j].socket = s
                      /\ \A k \in DOMAIN m : m[k].socket = s => j <= k
         IN [username |-> m[i].username, isGuest |-> m[i].isGuest]
    ELSE NoUser

(***************************************************************************)
(* CallQueue.                                                              *)
(***************************************************************************)
QueueLen(q) == Len(q["male"]) + Len(q["female"]) + Len(q["other"])

\* A queue keyed by what the user looks for rather than by what the user is.
addToQueueByPreference(q, user) ==
    IF user.genderPreference \in DOMAIN q
    THEN [q EXCEPT ![user.genderPreference] = Append(@, user)]
    ELSE [q EXCEPT ![user.gender] = Append(@, user)]

addToQueue(q, user) == [q EXCEPT ![user.gender] = Append(@, user)]

\* queue.findIndex(u => u.id === userId) ; 0 when there is none
FindIndex(queue, userId) ==
    IF \E i \in DOMAIN queue : queue[i].id = userId
    THEN CHOOSE i \in DOMAIN queue :
             /\ queue[i].id = userId
             /\ \A j \in DOMAIN queue : queue[j].id = userId => i <= j
    ELSE 0

\* queue.splice(index, 1)
Splice(queue, index) ==
    [i \in 1..(Len(queue) - 1) |-> IF i < index THEN queue[i] ELSE queue[i + 1]]

removeFromQueue(q, userId) ==
    [g \in DOMAIN q |->
        IF FindIndex(q[g], userId) # 0
        THEN Splice(q[g], FindIndex(q[g], userId))
        ELSE q[g]]

\* A test that passes every entry.
AcceptsAll(u, user) == u.genderPreference = u.genderPreference

\* A test that passes only the entries without a preference.
AcceptsAnyOnly(u, user) == u.genderPreference = "any"

\* An entry is an object: two entries are the same object iff they sit at the
\* same position <<partition, index>>.
Accepts(u, user) ==
    u.genderPreference = "any" \/ u.genderPreference = user.gender

NoPos == <<None, 0>>

\* queue.find(u => u !== user && accepts) in partition g2, for the user at pos
FindIn(q, g2, pos) ==
    LET user == q[pos[1]][pos[2]]
        ok(j) == <<g2, j>> # pos /\ Accepts(q[g2][j], user)
    IN IF \E j \in DOMAIN q[g2] : ok(j)
       THEN <<g2, CHOOSE j \in DOMAIN q[g2] :
                      ok(j) /\ \A k \in DOMAIN q[g2] : ok(k) => j <= k>>
       ELSE NoPos

findAnyMatch(q, pos) ==
    LET hits == {n \in 1..3 : FindIn(q, Partitions[n], pos) # NoPos}
    IN IF hits = {} THEN NoPos
       ELSE FindIn(q, Partitions[CHOOSE n \in hits : \A k \in hits : n <= k], pos)

\* A specific search that looks into every partition.
findSpecificMatchAnywhere(q, pos, preferredGender) == findAnyMatch(q, pos)

findSpecificMatch(q, pos, preferredGender) == FindIn(q, preferredGender, pos)

potentialMatch(q, pos) ==
    IF q[pos[1]][pos[2]].genderPreference = "any"
    THEN findAnyMatch(q, pos)
    ELSE findSpecificMatch(q, pos, q[pos[1]][pos[2]].genderPreference)

\* getPair: the nested loops over Object.entries(queues) and queue indices,
\* from partition n, index i on; stops at the first user1 with a match.
RECURSIVE Scan(_, _, _)
Scan(q, n, i) ==
    IF n > 3 THEN [found |-> FALSE, pair |-> <<>>, at |-> <<>>, queues |-> q]
    ELSE IF i > Len(q[Partitions[n]]) THEN Scan(q, n + 1, 1)
    ELSE LET p1 == <<Partitions[n], i>>
             p2 == potentialMatch(q, p1)
         IN IF p2 # NoPos
            THEN LET user1 == q[p1[1]][p1[2]]
                     match == q[p2[1]][p2[2]]
                 IN [found |-> TRUE,
                     pair |-> <<user1, match>>,
                     at |-> <<p1, p2>>,
                     queues |-> removeFromQueue(removeFromQueue(q, user1.id), match.id)]
            ELSE Scan(q, n, i + 1)

\* A getPair that returns the pair and leaves its entries queued.
getPairKeepingEntries(q) == [Scan(q, 1, 1) EXCEPT !.queues = q]

getPair(q) == Scan(q, 1, 1)

(***************************************************************************)
(* Outbound events.                                                        *)
(***************************************************************************)
Emit(to, ev, arg) == [to |-> to, ev |-> ev, arg |-> arg]

Step(op, sock, info) == [op |-> op, sock |-> sock, info |-> info]

IsOpen(s) == sockets[s].state = "open"

Init ==
    /\ sockets = [s \in Sockets |-> [state |-> "new", username |-> None, isGuest |-> FALSE]]
    /\ connectedUsers = <<>>
    /\ queues = [g \in {"male", "female", "other"} |-> <<>>]
    /\ conversations = {}
    /\ messages = <<>>
    /\ now = 0
    /\ period = 0
    /\ pending = <<>>
    /\ last = Step("init", None, [result |-> None])
    /\ out = <<>>
    /\ offline = {}

\* The suspended handler at index i resumes and leaves the list, or stays with
\* a new continuation.
Drop(i) == [j \in 1..(Len(pending) - 1) |-> IF j < i THEN pending[j] ELSE pending[j + 1]]

Resume(i, h) == [pending EXCEPT ![i] = h]

Registry == <<sockets, connectedUsers>>
Store == <<conversations, messages, offline>>

(***************************************************************************)
(* io.on("connection") and socket.on("disconnect").                        *)
(***************************************************************************)
Connection(s) ==
    /\ sockets[s].state = "new"
    /\ sockets' = [sockets EXCEPT ![s].state = "open"]
    /\ last' = Step("connection", s, [result |-> "ok"])
    /\ out' = <<>>
    /\ UNCHANGED <<connectedUsers, queues, Store, now, period, pending>>

\* The fields of a closed socket are read by no handler: they are cleared.
Disconnect(s) ==
    /\ IsOpen(s)
    /\ sockets' = [sockets EXCEPT ![s] = [state |-> "closed", username |-> None,
                                          isGuest |-> FALSE]]
    /\ connectedUsers' = IF sockets[s].username # None
                         THEN MapDelete(connectedUsers, sockets[s].username)
                         ELSE connectedUsers
    /\ last' = Step("disconnect", s, [result |-> "ok",
                                      userInfo |-> getUserInfoFromSocket(connectedUsers, s),
                                      username |-> sockets[s].username])
    /\ out' = <<>>
    /\ UNCHANGED <<queues, Store, now, period, pending>>

(***************************************************************************)
(* socket.on("authenticate").                                              *)
(***************************************************************************)
Tokens == Users \cup {"bad"}

Decode(token) == [username |-> token, isGuest |-> IsGuestUser(token), canCall |-> TRUE]

\* A handler that drops the connection's session when verification fails.
AuthenticateClearing(s, token) ==
    /\ IsOpen(s)
    /\ IF token \notin Users
       THEN /\ out' = <<Emit(s, "authentication_error", <<>>)>>
            /\ last' = Step("authenticate", s, [result |-> "invalid", prev |-> None])
            /\ sockets' = [sockets EXCEPT ![s].username = None, ![s].isGuest = FALSE]
            /\ connectedUsers' = IF sockets[s].username # None
                                 THEN MapDelete(connectedUsers, sockets[s].username)
                                 ELSE connectedUsers
            /\ UNCHANGED pending
       ELSE LET decoded == Decode(token)
                prev == MapGet(connectedUsers, decoded.username).socket
            IN /\ decoded.isGuest \/ Len(pending) < MaxPending
               /\ sockets' = [sockets EXCEPT ![s].username = decoded.username,
                                             ![s].isGuest = decoded.isGuest]
               /\ connectedUsers' = MapSet(connectedUsers, decoded.username,
                                           [username |-> decoded.username,
                                            socket |-> s,
                                            isGuest |-> decoded.isGuest])
               /\ out' = <<Emit(s, "authenticated",
                                [isGuest |-> decoded.isGuest, canCall |-> decoded.canCall])>>
               /\ pending' = IF decoded.isGuest THEN pending
                             ELSE Append(pending, [kind |-> "authenticate", pc |-> "findOne",
                                                   sock |-> s, username |-> decoded.username])
               /\ last' = Step("authenticate", s,
                               [result |-> "ok",
                                prev |-> prev])
    /\ UNCHANGED <<queues, Store, now, period>>

Authenticate(s, token) ==
    /\ IsOpen(s)
    /\ IF token \notin Users
       THEN /\ out' = <<Emit(s, "authentication_error", <<>>)>>
            /\ last' = Step("authenticate", s, [result |-> "invalid", prev |-> None])
            /\ UNCHANGED <<Registry, pending>>
       ELSE LET decoded == Decode(token)
                prev == MapGet(connectedUsers, decoded.username).socket
            IN /\ decoded.isGuest \/ Len(pending) < MaxPending
               /\ sockets' = [sockets EXCEPT ![s].username = decoded.username,
                                             ![s].isGuest = decoded.isGuest]
               /\ connectedUsers' = MapSet(connectedUsers, decoded.username,
                                           [username |-> decoded.username,
                                            socket |-> s,
                                            isGuest |-> decoded.isGuest])
               /\ out' = <<Emit(s, "authenticated",
                                [isGuest |-> decoded.isGuest, canCall |-> decoded.canCall])>>
               /\ pending' = IF decoded.isGuest THEN pending
                             ELSE Append(pending, [kind |-> "authenticate", pc |-> "findOne",
                                                   sock |-> s, username |-> decoded.username])
               /\ last' = Step("authenticate", s,
                               [result |-> "ok",
                                prev |-> prev])
    /\ UNCHANGED <<queues, Store, now, period>>

\* await User.findOne({username}) of the authenticate handler returns
AuthenticateFindOne(i, outcome) ==
    /\ i \in DOMAIN pending
    /\ pending[i].kind = "authenticate" /\ pending[i].pc = "findOne"
    /\ CASE outcome = "found" ->
              /\ pending' = Resume(i, [pending[i] EXCEPT !.pc = "find"])
              /\ out' = <<>>
         [] outcome = "null" ->
              /\ pending' = Drop(i)
              /\ out' = <<>>
         [] OTHER ->
              /\ pending' = Drop(i)
              /\ out' = <<Emit(pending[i].sock, "authentication_error", <<>>)>>
    /\ last' = Step("authenticate.findOne", pending[i].sock, [result |-> outcome])
    /\ UNCHANGED <<Registry, queues, Store, now, period>>

Hour == 2

\* Insertion of a document into a list kept ascending by timestamp (stable).
RECURSIVE SortByTimestamp(_)
SortByTimestamp(ms) ==
    IF ms = <<>> THEN <<>>
    ELSE LET rest == SortByTimestamp(Tail(ms))
             m == Head(ms)
             k == Cardinality({j \in DOMAIN rest : rest[j].timestamp < m.timestamp})
         IN SubSeq(rest, 1, k) \o <<m>> \o SubSeq(rest, k + 1, Len(rest))

\* Message.find({recipient: user._id, timestamp: {$gt: since}}).sort({timestamp: 1}).
\* The Message schema has no recipient path and no stored document carries
\* one: with strictQuery the unknown path is dropped from the filter, without
\* it the filter matches no document.
FindMissed(u, since, strictQuery) ==
    IF strictQuery
    THEN SortByTimestamp(SelectSeq(messages, LAMBDA m : m.timestamp > since))
    ELSE <<>>

\* A handler that announces the authentication after the replay.
AuthenticateFindThenAuthenticated(i, outcome, strictQuery) ==
    /\ i \in DOMAIN pending
    /\ pending[i].kind = "authenticate" /\ pending[i].pc = "find"
    /\ pending' = Drop(i)
    /\ IF outcome = "found"
       THEN LET missedMessages == FindMissed(pending[i].username, now - Hour, strictQuery)
            IN out' = [k \in DOMAIN missedMessages |->
                        Emit(pending[i].sock, "new_message",
                             [senderUsername |-> missedMessages[k].sender,
                              timestamp |-> missedMessages[k].timestamp,
                              id |-> missedMessages[k].id])]
                      \o <<Emit(pending[i].sock, "authenticated",
                                [isGuest |-> FALSE, canCall |-> TRUE])>>
       ELSE out' = <<Emit(pending[i].sock, "authentication_error", <<>>)>>
    /\ last' = Step("authenticate.find", pending[i].sock,
                    [result |-> outcome, username |-> pending[i].username])
    /\ UNCHANGED <<Registry, queues, Store, now, period>>

AuthenticateFind(i, outcome, strictQuery) ==
    /\ i \in DOMAIN pending
    /\ pending[i].kind = "authenticate" /\ pending[i].pc = "find"
    /\ pending' = Drop(i)
    /\ IF outcome = "found"
       THEN LET missedMessages == FindMissed(pending[i].username, now - Hour, strictQuery)
            IN out' = [k \in DOMAIN missedMessages |->
                        Emit(pending[i].sock, "new_message",
                             [senderUsername |-> missedMessages[k].sender,
                              timestamp |-> missedMessages[k].timestamp,
                              id |-> missedMessages[k].id])]
       ELSE out' = <<Emit(pending[i].sock, "authentication_error", <<>>)>>
    /\ last' = Step("authenticate.find", pending[i].sock,
                    [result |-> outcome, username |-> pending[i].username])
    /\ UNCHANGED <<Registry, queues, Store, now, period>>

(***************************************************************************)
(* Call queue events and the match tick.                                   *)
(***************************************************************************)
\* preferences.genderPreference as the client sends it; "" is absent
ClientPreferences == Preferences \cup {""}

JoinCallQueue(s, pref) ==
    /\ IsOpen(s)
    /\ LET userInfo == getUserInfoFromSocket(connectedUsers, s)
       IN IF userInfo = NoUser
          THEN /\ pending' = pending
               /\ last' = Step("joinCallQueue", s, [result |-> "ignored"])
          ELSE /\ Len(pending) < MaxPending
               /\ pending' = Append(pending, [kind |-> "joinCallQueue", pc |-> "findOne",
                                              sock |-> s,
                                              username |-> userInfo.username,
                                              isGuest |-> userInfo.isGuest,
                                              genderPreference |-> pref])
               /\ last' = Step("joinCallQueue", s, [result |-> "await"])
    /\ out' = <<>>
    /\ UNCHANGED <<Registry, queues, Store, now, period>>

CallEnded(s) ==
    /\ IsOpen(s)
    /\ LET userInfo == getUserInfoFromSocket(connectedUsers, s)
       IN IF userInfo = NoUser
          THEN /\ pending' = pending
               /\ last' = Step("callEnded", s, [result |-> "ignored"])
          ELSE /\ Len(pending) < MaxPending
               /\ pending' = Append(pending, [kind |-> "callEnded", pc |-> "findOne",
                                              sock |-> s,
                                              username |-> userInfo.username,
                                              isGuest |-> userInfo.isGuest,
                                              genderPreference |-> ""])
               /\ last' = Step("callEnded", s, [result |-> "await"])
    /\ out' = <<>>
    /\ UNCHANGED <<Registry, queues, Store, now, period>>

getQueueLengths(q) ==
    [male |-> Len(q["male"]), female |-> Len(q["female"]), other |-> Len(q["other"])]

\* The entry built once await User.findOne has returned the user record.
QueueEntry(h) ==
    [id |-> h.username,
     isGuest |-> h.isGuest,
     socketId |-> h.sock,
     gender |-> UserGender(h.username),
     genderPreference |-> IF h.genderPreference # "" THEN h.genderPreference
                          ELSE UserGenderPreference(h.username)]

\* await User.findOne of joinCallQueue / callEnded returns; addToQueue throws
\* a TypeError when the record's gender names no partition.
QueueFindOne(i, outcome) ==
    /\ i \in DOMAIN pending
    /\ pending[i].kind \in {"joinCallQueue", "callEnded"}
    /\ pending' = Drop(i)
    /\ LET h == pending[i]
           user == QueueEntry(h)
       IN IF outcome = "null"
          THEN /\ queues' = queues
               /\ out' = <<>>
               /\ last' = Step(h.kind \o ".findOne", h.sock, [result |-> "null"])
          ELSE IF user.gender \notin DOMAIN queues
          THEN /\ queues' = queues
               /\ out' = <<>>
               /\ last' = Step(h.kind \o ".findOne", h.sock, [result |-> "throw"])
          ELSE /\ QueueLen(queues) < MaxQueue
               /\ queues' = addToQueue(queues, user)
               /\ out' = IF h.kind = "joinCallQueue"
                         THEN <<Emit(h.sock, "queueJoined", getQueueLengths(queues'))>>
                         ELSE <<>>
               /\ last' = Step(h.kind \o ".findOne", h.sock, [result |-> "added"])
    /\ UNCHANGED <<Registry, Store, now, period>>

LeaveCallQueue(s) ==
    /\ IsOpen(s)
    /\ LET userInfo == getUserInfoFromSocket(connectedUsers, s)
       IN IF userInfo = NoUser
          THEN /\ queues' = queues
               /\ out' = <<>>
               /\ last' = Step("leaveCallQueue", s, [result |-> "ignored"])
          ELSE /\ queues' = removeFromQueue(queues, userInfo.username)
               /\ out' = <<Emit(s, "queueLeft", <<>>)>>
               /\ last' = Step("leaveCallQueue", s,
                               [result |-> "left", username |-> userInfo.username])
    /\ UNCHANGED <<Registry, Store, now, period, pending>>

\* `call-${Date.now()}`: the room identifier is the clock reading.
Room == <<now, period>>

\* A tick that tells both sides to initiate.
TickBothInitiate ==
    /\ LET r == getPair(queues)
       IN /\ queues' = r.queues
          /\ out' = IF r.found
                    THEN <<Emit(r.pair[1].socketId, "callMatched",
                                [room |-> Room, isInitiator |-> TRUE]),
                           Emit(r.pair[2].socketId, "callMatched",
                                [room |-> Room, isInitiator |-> TRUE])>>
                    ELSE <<>>
          /\ last' = Step("tick", None,
                          [result |-> IF r.found THEN "pair" ELSE "null",
                           ids |-> IF r.found THEN <<r.pair[1].id, r.pair[2].id>>
                                   ELSE <<>>])
    /\ UNCHANGED <<Registry, Store, now, period, pending>>

\* The body of the setInterval callback, run when the clock reads `room`.
Callback(room) ==
    /\ LET r == getPair(queues)
       IN /\ queues' = r.queues
          /\ out' = IF r.found
                    THEN <<Emit(r.pair[1].socketId, "callMatched",
                                [room |-> room, isInitiator |-> TRUE]),
                           Emit(r.pair[2].socketId, "callMatched",
                                [room |-> room, isInitiator |-> FALSE])>>
                    ELSE <<>>
          /\ last' = Step("tick", None,
                          [result |-> IF r.found THEN "pair" ELSE "null",
                           ids |-> IF r.found THEN <<r.pair[1].id, r.pair[2].id>>
                                   ELSE <<>>])
    /\ UNCHANGED <<Registry, Store, pending>>

\* The setInterval callback, where the passage of time is left out.
Tick == Callback(Room) /\ UNCHANGED <<now, period>>

\* The setInterval callback, one period (600 ms) after the previous one.
TimerFires ==
    /\ period < MaxPeriods
    /\ period' = period + 1
    /\ UNCHANGED now
    /\ Callback(<<now, period + 1>>)

\* Date.now() is the system's wall clock: an adjustment sets it back.
ClockSetBack ==
    /\ \E t \in 0..(period - 1) : period' = t
    /\ UNCHANGED <<Registry, queues, Store, now, pending, last, out>>

(***************************************************************************)
(* Typing and call signaling.                                              *)
(***************************************************************************)
\* A relay that forwards to every registered connection.
ForwardToAll(op, s, recipientId, ev) ==
    /\ IsOpen(s)
    /\ LET userInfo == getUserInfoFromSocket(connectedUsers, s)
       IN /\ out' = IF userInfo # NoUser
                    THEN [k \in DOMAIN connectedUsers |->
                            Emit(connectedUsers[k].socket, ev, [from |-> userInfo.username])]
                    ELSE <<>>
          /\ last' = Step(op, s, [result |-> IF userInfo = NoUser THEN "ignored" ELSE "ok",
                                  recipientId |-> recipientId])
    /\ UNCHANGED <<Registry, queues, Store, now, period, pending>>

\* A relay that takes the sender out of the call queue when it forwards.
ForwardAndDequeue(op, s, recipientId, ev) ==
    /\ IsOpen(s)
    /\ LET userInfo == getUserInfoFromSocket(connectedUsers, s)
           recipientInfo == MapGet(connectedUsers, recipientId)
       IN /\ out' = IF userInfo # NoUser /\ recipientInfo # NoEntry
                    THEN <<Emit(recipientInfo.socket, ev, [from |-> userInfo.username])>>
                    ELSE <<>>
          /\ queues' = IF userInfo # NoUser
                       THEN removeFromQueue(queues, userInfo.username)
                       ELSE queues
          /\ last' = Step(op, s, [result |-> IF userInfo = NoUser THEN "ignored" ELSE "ok",
                                  recipientId |-> recipientId])
    /\ UNCHANGED <<Registry, Store, now, period, pending>>

\* The handlers that resolve the sender, then the recipient, and forward.
Forward(op, s, recipientId, ev) ==
    /\ IsOpen(s)
    /\ LET userInfo == getUserInfoFromSocket(connectedUsers, s)
           recipientInfo == MapGet(connectedUsers, recipientId)
       IN /\ out' = IF userInfo # NoUser /\ recipientInfo # NoEntry
                    THEN <<Emit(recipientInfo.socket, ev, [from |-> userInfo.username])>>
                    ELSE <<>>
          /\ last' = Step(op, s, [result |-> IF userInfo = NoUser THEN "ignored" ELSE "ok",
                                  recipientId |-> recipientId])
    /\ UNCHANGED <<Registry, queues, Store, now, period, pending>>

Typing(s, recipientId) == Forward("typing", s, recipientId, "user_typing")

StopTyping(s, recipientId) == Forward("stop_typing", s, recipientId, "user_stop_typing")

VideoCallOffer(s, recipientId) ==
    Forward("video_call_offer", s, recipientId, "video_call_offer")

IceCandidate(s, recipientId) == Forward("ice_candidate", s, recipientId, "ice_candidate")

\* An answer handler that drops the event of a connection with no session.
VideoCallAnswerChecked(s, callerId) ==
    /\ IsOpen(s)
    /\ LET userInfo == getUserInfoFromSocket(connectedUsers, s)
           recipientInfo == MapGet(connectedUsers, callerId)
       IN /\ out' = IF userInfo # NoUser /\ recipientInfo # NoEntry
                    THEN <<Emit(recipientInfo.socket, "video_call_answer", [from |-> None])>>
                    ELSE <<>>
          /\ last' = Step("video_call_answer", s,
                          [result |-> "ok", recipientId |-> callerId])
    /\ UNCHANGED <<Registry, queues, Store, now, period, pending>>

VideoCallAnswer(s, callerId) ==
    /\ IsOpen(s)
    /\ LET recipientInfo == MapGet(connectedUsers, callerId)
       IN /\ out' = IF recipientInfo # NoEntry
                    THEN <<Emit(recipientInfo.socket, "video_call_answer", [from |-> None])>>
                    ELSE <<>>
          /\ last' = Step("video_call_answer", s,
                          [result |-> "ok", recipientId |-> callerId])
    /\ UNCHANGED <<Registry, queues, Store, now, period, pending>>

(***************************************************************************)
(* socket.on("message").                                                   *)
(***************************************************************************)
\* _id of the next Conversation document
ConvIds == <<"c1", "c2", "c3">>

\* data.conversationId as the client sends it: absent, the id of a stored
\* conversation, or a well-formed id that names no document.
ClientConvIds == {"", "cx"} \cup {c.id : c \in conversations}

\* data.recipientUsername as the client sends it: a registered account or a
\* name that no user has.
ClientRecipients == {"u1", "u2", "nobody"}

HasConversation(id) == \E c \in conversations : c.id = id

ConversationById(id) == CHOOSE c \in conversations : c.id = id

MessageError(s) == Emit(s, "message_error", <<>>)

\* A handler that lets every registered session through.
MayChatGuests(userInfo) == userInfo # NoUser

\* if (userInfo && !userInfo.isGuest)
MayChat(userInfo) == userInfo # NoUser /\ ~userInfo.isGuest

Message(s, data) ==
    /\ IsOpen(s)
    /\ LET userInfo == getUserInfoFromSocket(connectedUsers, s)
       IN IF MayChat(userInfo)
          THEN /\ Len(pending) < MaxPending
               /\ pending' = Append(pending,
                     [kind |-> "message",
                      pc |-> IF data.conversationId # "" THEN "findById"
                             ELSE "getUserByUsername",
                      sock |-> s,
                      username |-> userInfo.username,
                      conversationId |-> data.conversationId,
                      recipientUsername |-> data.recipientUsername,
                      conversation |-> "",
                      timestamp |-> 0,
                      messageId |-> 0,
                      saved |-> <<>>])
               /\ out' = <<>>
               /\ last' = Step("message", s, [result |-> "await", userInfo |-> userInfo])
          ELSE /\ pending' = pending
               /\ out' = <<MessageError(s)>>
               /\ last' = Step("message", s, [result |-> "rejected", userInfo |-> userInfo])
    /\ UNCHANGED <<Registry, queues, Store, now, period>>

\* A catch block that logs the error and tells the sender nothing.
MessageCatchSilent(i, op) ==
    /\ pending' = Drop(i)
    /\ out' = <<>>
    /\ last' = Step(op, pending[i].sock, [result |-> "error", handler |-> pending[i]])

\* A step of the handler that ends in the catch block.
MessageCatch(i, op) ==
    /\ pending' = Drop(i)
    /\ out' = <<MessageError(pending[i].sock)>>
    /\ last' = Step(op, pending[i].sock, [result |-> "error", handler |-> pending[i]])

MessageAwait(i, op, h) ==
    /\ pending' = Resume(i, h)
    /\ out' = <<>>
    /\ last' = Step(op, h.sock, [result |-> "await", handler |-> h])

\* await Conversation.findById(data.conversationId) returns
MessageFindById(i, outcome) ==
    /\ i \in DOMAIN pending
    /\ pending[i].kind = "message" /\ pending[i].pc = "findById"
    /\ LET h == pending[i]
       IN IF outcome # "ok"
          THEN MessageCatch(i, "message.findById")
          ELSE IF HasConversation(h.conversationId)
          THEN MessageAwait(i, "message.findById",
                            [h EXCEPT !.pc = "message.save",
                                      !.conversation = h.conversationId,
                                      !.timestamp = now])
          ELSE MessageAwait(i, "message.findById", [h EXCEPT !.pc = "getUserByUsername"])
    /\ UNCHANGED <<Registry, queues, Store, now, period>>

\* A lookup whose null result is not checked.
MessageGetUserByUsernameUnchecked(i, outcome) ==
    /\ i \in DOMAIN pending
    /\ pending[i].kind = "message" /\ pending[i].pc = "getUserByUsername"
    /\ LET h == pending[i]
       IN IF outcome # "ok"
          THEN MessageCatch(i, "message.getUserByUsername")
          ELSE MessageAwait(i, "message.getUserByUsername",
                            [h EXCEPT !.pc = "conversation.create"])
    /\ UNCHANGED <<Registry, queues, Store, now, period>>

\* await getUserByUsername(data.recipientUsername) returns; null is thrown on
MessageGetUserByUsername(i, outcome) ==
    /\ i \in DOMAIN pending
    /\ pending[i].kind = "message" /\ pending[i].pc = "getUserByUsername"
    /\ LET h == pending[i]
       IN IF outcome # "ok" \/ h.recipientUsername \notin Users
          THEN MessageCatch(i, "message.getUserByUsername")
          ELSE MessageAwait(i, "message.getUserByUsername",
                            [h EXCEPT !.pc = "conversation.create"])
    /\ UNCHANGED <<Registry, queues, Store, now, period>>

Range(f) == {f[x] : x \in DOMAIN f}

\* The unique index on participants: no value of the array may occur in
\* another document.
DuplicateKey(participants) ==
    \E c \in conversations : Range(c.participants) \cap Range(participants) # {}

\* await conversation.save() of the new Conversation returns
MessageCreateConversation(i, outcome) ==
    /\ i \in DOMAIN pending
    /\ pending[i].kind = "message" /\ pending[i].pc = "conversation.create"
    /\ LET h == pending[i]
           participants == <<h.username, h.recipientUsername>>
           id == ConvIds[Cardinality(conversations) + 1]
       IN IF outcome # "ok" \/ DuplicateKey(participants)
          THEN /\ MessageCatch(i, "message.conversation.create")
               /\ conversations' = conversations
          ELSE /\ Cardinality(conversations) < Len(ConvIds)
               /\ conversations' = conversations \cup
                     {[id |-> id, participants |-> participants,
                       lastMessage |-> 0, updatedAt |-> now]}
               /\ MessageAwait(i, "message.conversation.create",
                               [h EXCEPT !.pc = "message.save",
                                         !.conversation = id,
                                         !.timestamp = now,
                                         !.saved = Append(@, "Conversation")])
    /\ UNCHANGED <<Registry, queues, messages, offline, now, period>>

\* await message.save() returns; conversation is a required path of the schema
MessageSave(i, outcome) ==
    /\ i \in DOMAIN pending
    /\ pending[i].kind = "message" /\ pending[i].pc = "message.save"
    /\ LET h == pending[i]
           id == Len(messages) + 1
       IN IF outcome # "ok" \/ h.conversationId = ""
          THEN /\ MessageCatch(i, "message.save")
               /\ messages' = messages
          ELSE /\ Len(messages) < MaxMessages
               /\ messages' = Append(messages,
                     [id |-> id, conversation |-> h.conversationId,
                      sender |-> h.username, timestamp |-> h.timestamp])
               /\ MessageAwait(i, "message.save",
                               [h EXCEPT !.pc = "conversation.save",
                                         !.messageId = id,
                                         !.saved = Append(@, "Message")])
    /\ UNCHANGED <<Registry, queues, conversations, offline, now, period>>

\* The loop over conversation.participants: one new_message per participant
\* other than the sender whose identity is registered.
RECURSIVE FanOut(_, _)
FanOut(participants, h) ==
    IF participants = <<>> THEN <<>>
    ELSE LET participantId == Head(participants)
             recipientInfo == MapGet(connectedUsers, participantId)
         IN (IF participantId # h.username /\ recipientInfo # NoEntry
             THEN <<Emit(recipientInfo.socket, "new_message",
                         [conversationId |-> h.conversationId,
                          senderId |-> h.username,
                          timestamp |-> h.timestamp])>>
             ELSE <<>>) \o FanOut(Tail(participants), h)

\* await conversation.save() with the new lastMessage and updatedAt returns
MessageConversationSave(i, outcome) ==
    /\ i \in DOMAIN pending
    /\ pending[i].kind = "message" /\ pending[i].pc = "conversation.save"
    /\ LET h == pending[i]
           conversation == ConversationById(h.conversation)
           done == [h EXCEPT !.saved = Append(@, "Conversation")]
           fanout == FanOut(conversation.participants, h)
       IN IF outcome # "ok"
          THEN /\ MessageCatch(i, "message.conversation.save")
               /\ conversations' = conversations
               /\ offline' = offline
          ELSE /\ conversations' = (conversations \ {conversation}) \cup
                     {[conversation EXCEPT !.lastMessage = h.messageId,
                                           !.updatedAt = now]}
               /\ pending' = Drop(i)
               /\ offline' = offline \cup
                     {<<h.messageId, p>> : p \in
                        {q \in Range(conversation.participants) \ {h.username} :
                            ~MapHas(connectedUsers, q)}}
               /\ out' = fanout \o
                     <<Emit(h.sock, "message_sent",
                            [messageId |-> h.messageId,
                             conversationId |-> h.conversationId,
                             timestamp |-> h.timestamp])>>
               /\ last' = Step("message.conversation.save", h.sock,
                               [result |-> "sent", handler |-> done])
    /\ UNCHANGED <<Registry, queues, messages, now, period>>

\* Time passes.
Clock ==
    /\ now < MaxTime
    /\ now' = now + 1
    /\ period' = 0
    /\ out' = <<>>
    /\ last' = Step("clock", None, [result |-> "ok"])
    /\ UNCHANGED <<Registry, queues, Store, pending>>

(***************************************************************************)
(* Specifications.                                                         *)
(***************************************************************************)
Outcomes == {"ok", "throw"}

Sessions ==
    \/ \E s \in Sockets : Connection(s)
    \/ \E s \in Sockets : Disconnect(s)
    \/ \E s \in Sockets, token \in Tokens : Authenticate(s, token)
    \/ \E i \in 1..MaxPending, outcome \in {"found", "null", "throw"} :
          AuthenticateFindOne(i, outcome)
    \/ \E i \in 1..MaxPending, outcome \in {"found", "throw"}, strictQuery \in BOOLEAN :
          AuthenticateFind(i, outcome, strictQuery)

Calls ==
    \/ \E s \in Sockets, pref \in ClientPreferences : JoinCallQueue(s, pref)
    \/ \E s \in Sockets : CallEnded(s)
    \/ \E i \in 1..MaxPending, outcome \in {"found", "null"} : QueueFindOne(i, outcome)
    \/ \E s \in Sockets : LeaveCallQueue(s)
    \/ Tick

Signaling ==
    \/ \E s \in Sockets, r \in Users : Typing(s, r)
    \/ \E s \in Sockets, r \in Users : StopTyping(s, r)
    \/ \E s \in Sockets, r \in Users : VideoCallOffer(s, r)
    \/ \E s \in Sockets, r \in Users : VideoCallAnswer(s, r)
    \/ \E s \in Sockets, r \in Users : IceCandidate(s, r)

Chat ==
    \/ \E s \in Sockets, c \in ClientConvIds, r \in ClientRecipients :
          Message(s, [conversationId |-> c, recipientUsername |-> r])
    \/ \E i \in 1..MaxPending, outcome \in Outcomes : MessageFindById(i, outcome)
    \/ \E i \in 1..MaxPending, outcome \in Outcomes : MessageGetUserByUsername(i, outcome)
    \/ \E i \in 1..MaxPending, outcome \in Outcomes : MessageCreateConversation(i, outcome)
    \/ \E i \in 1..MaxPending, outcome \in Outcomes : MessageSave(i, outcome)
    \/ \E i \in 1..MaxPending, outcome \in Outcomes : MessageConversationSave(i, outcome)

\* Sessions and signaling, from the start of the server.
Next == Sessions \/ Signaling

Spec == Init /\ [][Next]_vars

Session(s, u) == [username |-> u, socket |-> s, isGuest |-> IsGuestUser(u)]

Opened(s, u) == [state |-> "open", username |-> u, isGuest |-> IsGuestUser(u)]

\* The call queue, from the states in which a registered user (u1 or u2) has
\* authenticated on s1 and g1 on s2.
QueueInit ==
    /\ \E u \in {"u1", "u2"} :
          /\ sockets = [s \in Sockets |-> IF s = "s1" THEN Opened(s, u) ELSE Opened(s, "g1")]
          /\ connectedUsers = <<Session("s1", u), Session("s2", "g1")>>
    /\ queues = [g \in {"male", "female", "other"} |-> <<>>]
    /\ conversations = {}
    /\ messages = <<>>
    /\ now = 0
    /\ period = 0
    /\ pending = <<>>
    /\ last = Step("init", None, [result |-> None])
    /\ out = <<>>
    /\ offline = {}

\* Queue events, disconnects, and the guest authenticating again on either
\* connection.
QueueNext ==
    \/ Calls
    \/ \E s \in Sockets : Disconnect(s)
    \/ \E s \in Sockets, token \in {"g1", "bad"} : Authenticate(s, token)

QueueSpec == QueueInit /\ [][QueueNext]_vars

\* Registries the chat starts from: sender and recipient on two connections,
\* a guest and a user, and one connection that authenticated as u1 and then
\* as u2.
Registries ==
    {<<Session("s1", "u1"), Session("s2", "u2")>>,
     <<Session("s1", "g1"), Session("s2", "u1")>>,
     <<Session("s1", "u1"), Session("s1", "u2")>>}

LastAuthenticated(m, s) ==
    IF \E i \in DOMAIN m : m[i].socket = s
    THEN m[CHOOSE i \in DOMAIN m :
               m[i].socket = s /\ \A j \in DOMAIN m : m[j].socket = s => j <= i].username
    ELSE None

Conversation1 ==
    [id |-> "c1", participants |-> <<"u1", "u2">>, lastMessage |-> 0, updatedAt |-> 0]

\* Chat messages, from the states in which the connections are open and have
\* authenticated; the conversation of u1 and u2 exists or not.
ChatInit ==
    /\ connectedUsers \in Registries
    /\ sockets = [s \in Sockets |->
                    [state |-> "open",
                     username |-> LastAuthenticated(connectedUsers, s),
                     isGuest |-> IsGuestUser(LastAuthenticated(connectedUsers, s))]]
    /\ queues = [g \in {"male", "female", "other"} |-> <<>>]
    /\ conversations \in {{}, {Conversation1}}
    /\ messages = <<>>
    /\ now = 0
    /\ period = 0
    /\ pending = <<>>
    /\ last = Step("init", None, [result |-> None])
    /\ out = <<>>
    /\ offline = {}

ChatNext == Chat \/ \E s \in Sockets : Disconnect(s)

ChatSpec == ChatInit /\ [][ChatNext]_vars

\* Missed messages, from the state in which u1 has authenticated on s1 and
\* the conversation of u1 and u2 exists: messages in that conversation, and
\* authentications on the other connection.
ReplayInit ==
    /\ sockets = [s \in Sockets |->
                    IF s = "s1" THEN Opened(s, "u1")
                    ELSE [state |-> "open", username |-> None, isGuest |-> FALSE]]
    /\ connectedUsers = <<Session("s1", "u1")>>
    /\ queues = [g \in {"male", "female", "other"} |-> <<>>]
    /\ conversations = {Conversation1}
    /\ messages = <<>>
    /\ now = 0
    /\ period = 0
    /\ pending = <<>>
    /\ last = Step("init", None, [result |-> None])
    /\ out = <<>>
    /\ offline = {}

ReplayNext ==
    \/ \E token \in Tokens : Authenticate("s2", token)
    \/ \E i \in 1..MaxPending, outcome \in {"found", "null", "throw"} :
          AuthenticateFindOne(i, outcome)
    \/ \E i \in 1..MaxPending, outcome \in {"found", "throw"}, strictQuery \in BOOLEAN :
          AuthenticateFind(i, outcome, strictQuery)
    \/ \E s \in Sockets : Message(s, [conversationId |-> "c1", recipientUsername |-> "u2"])
    \/ \E i \in 1..MaxPending, outcome \in Outcomes : MessageFindById(i, outcome)
    \/ \E i \in 1..MaxPending, outcome \in Outcomes : MessageSave(i, outcome)
    \/ \E i \in 1..MaxPending, outcome \in Outcomes : MessageConversationSave(i, outcome)
    \/ Clock

ReplaySpec == ReplayInit /\ [][ReplayNext]_vars

\* The queue on its own: addToQueue with any entry of four guests, a
\* (female), b and c (male) and d (other), and the match tick.
PairIds == {"a", "b", "c", "d"}

PairGender(id) ==
    CASE id = "a" -> "female" [] id = "d" -> "other" [] OTHER -> "male"

PairEntry(id, pref) ==
    [id |-> id,
     isGuest |-> TRUE,
     socketId |-> IF id \in {"a", "c"} THEN "s1" ELSE "s2",
     gender |-> PairGender(id),
     genderPreference |-> pref]

AddToQueue(user) ==
    /\ QueueLen(queues) < MaxQueue
    /\ queues' = addToQueue(queues, user)
    /\ out' = <<>>
    /\ last' = Step("addToQueue", None, [result |-> "added"])
    /\ UNCHANGED <<Registry, Store, now, period, pending>>

PairNext ==
    \/ \E id \in PairIds, pref \in Preferences : AddToQueue(PairEntry(id, pref))
    \/ Tick

PairSpec == Init /\ [][PairNext]_vars

\* The timer keeps firing: a tick that changes the state is taken eventually.
PairLiveSpec == PairSpec /\ WF_vars(Tick)

\* The scheduler with the clock: two pairs' worth of guests are queued, the
\* timer fires once per period and the wall clock may be adjusted.
TickInit ==
    /\ sockets = [s \in Sockets |-> [state |-> "new", username |-> None, isGuest |-> FALSE]]
    /\ connectedUsers = <<>>
    /\ \E pa, pb, pc, pd \in Preferences :
          queues = addToQueue(addToQueue(addToQueue(addToQueue(
                       [g \in {"male", "female", "other"} |-> <<>>],
                       PairEntry("a", pa)), PairEntry("b", pb)),
                       PairEntry("c", pc)), PairEntry("d", pd))
    /\ conversations = {}
    /\ messages = <<>>
    /\ now = 0
    /\ period = 0
    /\ pending = <<>>
    /\ last = Step("init", None, [result |-> None])
    /\ out = <<>>
    /\ offline = {}

TickNext ==
    \/ TimerFires
    \/ ClockSetBack
    \/ \E id \in PairIds, pref \in Preferences : AddToQueue(PairEntry(id, pref))

TickSpec == TickInit /\ [][TickNext]_vars

\* The relay alone, from states in which sessions are registered, a guest may
\* be queued and the conversation of u1 and u2 may hold a message.
RelayInit ==
    /\ connectedUsers \in Registries
    /\ sockets = [s \in Sockets |->
                    [state |-> "open",
                     username |-> LastAuthenticated(connectedUsers, s),
                     isGuest |-> IsGuestUser(LastAuthenticated(connectedUsers, s))]]
    /\ queues \in {[g \in {"male", "female", "other"} |-> <<>>],
                   addToQueue([g \in {"male", "female", "other"} |-> <<>>],
                              [id |-> "g1", isGuest |-> TRUE, socketId |-> "s1",
                               gender |-> UserGender("g1"),
                               genderPreference |-> UserGenderPreference("g1")])}
    /\ \/ conversations = {} /\ messages = <<>>
       \/ /\ conversations = {[Conversation1 EXCEPT !.lastMessage = 1]}
          /\ messages = <<[id |-> 1, conversation |-> "c1", sender |-> "u1",
                           timestamp |-> 0]>>
    /\ now = 0
    /\ period = 0
    /\ pending = <<>>
    /\ last = Step("init", None, [result |-> None])
    /\ out = <<>>
    /\ offline = {}

RelayNext == Signaling

RelaySpec == RelayInit /\ [][RelayNext]_vars

(***************************************************************************)
(* Properties.                                                             *)
(***************************************************************************)
AuthenticatedNow == last.op = "authenticate" /\ last.info.result = "ok"

\* C1: the registry holds at most one session per identity, and right after
\* a successful authenticate a lookup of the authenticated identity returns
\* the authenticating connection, also when the identity was registered on
\* another connection before.
C1_OneSessionPerIdentity ==
    /\ \A i, j \in DOMAIN connectedUsers :
          connectedUsers[i].username = connectedUsers[j].username => i = j
    /\ AuthenticatedNow =>
          MapGet(connectedUsers, sockets[last.sock].username).socket = last.sock

\* An identity registered on one connection has just authenticated on another.
C1_Witness ==
    /\ AuthenticatedNow
    /\ last.info.prev \notin {None, last.sock}

InboundEvents ==
    {"joinCallQueue", "leaveCallQueue", "callEnded", "typing", "stop_typing",
     "message", "video_call_offer", "video_call_answer", "ice_candidate",
     "disconnect"}

\* C10: an inbound event other than authenticate on a connection with no
\* registered session changes neither the registry, the queue nor the stored
\* documents, and emits to no connection but the sending one.
C10_UnregisteredEventsDropped ==
    [][(/\ last'.op \in InboundEvents
        /\ getUserInfoFromSocket(connectedUsers, last'.sock) = NoUser)
       => (/\ connectedUsers' = connectedUsers
           /\ queues' = queues
           /\ conversations' = conversations
           /\ messages' = messages
           /\ \A k \in DOMAIN out' : out'[k].to = last'.sock)]_vars

\* C2: in every reachable queue getPair returns no pair of two entries of
\* the same identity.
C2_PairOfDistinctIdentities ==
    LET r == getPair(queues)
    IN r.found => r.pair[1].id # r.pair[2].id

\* The queue q without the entries at the positions in ps.
Without(q, ps) ==
    [g \in DOMAIN q |->
        LET keep == {i \in DOMAIN q[g] : <<g, i>> \notin ps}
            nth(k) == CHOOSE i \in keep : Cardinality({j \in keep : j <= i}) = k
        IN [k \in 1..Cardinality(keep) |-> q[g][nth(k)]]]

\* C3: getPair leaves the queue without exactly the two entries it returns,
\* the others in place and in order; when it returns none the queue is
\* unchanged.
C3_ExactlyThePairRemoved ==
    LET r == getPair(queues)
    IN IF r.found
       THEN r.queues = Without(queues, {r.at[1], r.at[2]})
       ELSE r.queues = queues

Queued(u) == \E g \in DOMAIN queues : \E i \in DOMAIN queues[g] : queues[g][i].id = u

\* C4: once the disconnect of a connection has been processed, the identity
\* of its session has no entry in the queue.
C4_DisconnectDequeues ==
    (last.op = "disconnect" /\ last.info.userInfo # NoUser)
        => ~Queued(last.info.userInfo.username)

\* C5: a message event on a connection whose registered session is a guest
\* emits message_error to that connection and nothing else, writes no
\* Conversation and no Message, and suspends no handler that could.
C5_GuestIsolation ==
    [][(/\ last'.op = "message"
        /\ getUserInfoFromSocket(connectedUsers, last'.sock).isGuest)
       => (/\ out' = <<MessageError(last'.sock)>>
           /\ conversations' = conversations
           /\ messages' = messages
           /\ pending' = pending)]_vars

\* A guest session has just sent a message while a conversation is stored.
C5_Witness ==
    /\ last.op = "message"
    /\ last.info.userInfo.isGuest
    /\ conversations # {}

MessageSteps ==
    {"message.findById", "message.getUserByUsername", "message.conversation.create",
     "message.save", "message.conversation.save"}

\* C6: when the save of the Message or the update of the Conversation fails,
\* that step emits message_error to the sender and nothing else and ends the
\* handler; no step of the handler before it has emitted anything.
C6_FailedWriteNoFanOut ==
    [][/\ (last'.op \in {"message.save", "message.conversation.save"}
           /\ last'.info.result = "error")
          => (/\ out' = <<MessageError(last'.info.handler.sock)>>
              /\ Len(pending') = Len(pending) - 1)
       /\ (last'.op \in MessageSteps \cup {"message"} /\ last'.info.result = "await")
          => out' = <<>>]_vars

\* The update of the Conversation has just failed after the Message was
\* saved, while the other participant is registered.
C6_Witness ==
    /\ last.op = "message.conversation.save"
    /\ last.info.result = "error"
    /\ last.info.handler.saved = <<"Message">>
    /\ \E p \in Range(ConversationById(last.info.handler.conversation).participants) :
          p # last.info.handler.username /\ MapHas(connectedUsers, p)

\* C7: when a message to an existing conversation has gone through with every
\* call succeeding, the handler has saved one Message and updated the
\* Conversation once, has emitted one message_sent, to the sender, and one
\* new_message for each other participant that is registered, to that
\* participant's connection, and none to the sender's own connection.
C7_RoundTrip ==
    (/\ last.op = "message.conversation.save"
     /\ last.info.result = "sent"
     /\ last.info.handler.conversation = last.info.handler.conversationId)
    => LET h == last.info.handler
           c == ConversationById(h.conversation)
           live == {p \in Range(c.participants) \ {h.username} :
                        MapHas(connectedUsers, p)}
           sent == {k \in DOMAIN out : out[k].ev = "message_sent"}
           new == {k \in DOMAIN out : out[k].ev = "new_message"}
       IN /\ h.saved = <<"Message", "Conversation">>
          /\ c.lastMessage = h.messageId /\ c.updatedAt = now
          /\ Cardinality(sent) = 1 /\ \A k \in sent : out[k].to = h.sock
          /\ Cardinality(new) = Cardinality(live)
          /\ \A p \in live : \E k \in new : out[k].to = MapGet(connectedUsers, p).socket
          /\ \A k \in new : out[k].to # h.sock

Replayed == last.op = "authenticate.find" /\ last.info.result = "found"

ReplayedIds == {out[k].arg.id : k \in {j \in DOMAIN out : out[j].ev = "new_message"}}

\* C8: when the missed messages of an identity are replayed, every message
\* that was sent while the identity had no registered session, and whose
\* timestamp is less than an hour old, is among the new_message events.
C8_MissedMessageDelivered ==
    Replayed =>
        \A k \in DOMAIN messages :
            (/\ <<messages[k].id, last.info.username>> \in offline
             /\ messages[k].timestamp > now - Hour)
            => messages[k].id \in ReplayedIds

\* The stored message m is addressed to u: u is a participant of its
\* conversation and not its sender.
Addressed(m, u) ==
    /\ m.sender # u
    /\ \E c \in conversations : c.id = m.conversation /\ u \in Range(c.participants)

\* C9: the new_message events replayed to an identity are the stored messages
\* addressed to it with a timestamp less than an hour old, each once, in
\* ascending order of timestamp.
C9_ReplayExactlyRecent ==
    Replayed =>
        /\ \A k \in DOMAIN out : out[k].ev = "new_message" /\ out[k].to = last.sock
        /\ ReplayedIds = {messages[k].id : k \in
                             {j \in DOMAIN messages :
                                 /\ Addressed(messages[j], last.info.username)
                                 /\ messages[j].timestamp > now - Hour}}
        /\ \A j, k \in DOMAIN out :
              /\ j < k => out[j].arg.timestamp <= out[k].arg.timestamp
              /\ out[j].arg.id = out[k].arg.id => j = k

Matched == last.op = "tick" /\ last.info.result = "pair"

\* C11: right after the tick that matched a pair, neither identity of the
\* pair has an entry in any partition.
C11_MatchedLeaveTheQueue ==
    Matched => \A k \in DOMAIN last.info.ids : ~Queued(last.info.ids[k])

\* C12: once leaveCallQueue of a registered session has been processed, the
\* identity of the session has no entry in any partition.
C12_LeaveDequeues ==
    (last.op = "leaveCallQueue" /\ last.info.result = "left")
        => ~Queued(last.info.username)

\* C13: when the lookup of a joinCallQueue handler returns right after a
\* leaveCallQueue that the same connection sent after that joinCallQueue,
\* both handlers have completed and the identity has no entry in the queue.
C13_JoinThenLeave ==
    [][(/\ last.op = "leaveCallQueue"
        /\ last.info.result = "left"
        /\ last'.op = "joinCallQueue.findOne"
        /\ last'.sock = last.sock)
       => \A g \in DOMAIN queues' : \A i \in DOMAIN queues'[g] :
             queues'[g][i].id # last.info.username]_vars

\* C14: every entry stored in partition g has gender g, and no identity has
\* entries in two different partitions.
C14_PartitionedByGender ==
    /\ \A g \in DOMAIN queues : \A i \in DOMAIN queues[g] : queues[g][i].gender = g
    /\ \A g, h \in DOMAIN queues : \A i \in DOMAIN queues[g], j \in DOMAIN queues[h] :
          queues[g][i].id = queues[h][j].id => g = h

\* Two partitions hold entries, one entry prefers a gender other than its
\* own, and one identity has two entries.
C14_Witness ==
    /\ queues["male"] # <<>> /\ queues["female"] # <<>>
    /\ \E g \in DOMAIN queues : \E i \in DOMAIN queues[g] :
          queues[g][i].genderPreference \notin {"any", g}
    /\ \E g \in DOMAIN queues : \E i, j \in DOMAIN queues[g] :
          i # j /\ queues[g][i].id = queues[g][j].id

AuthEvents == {"authenticated", "authentication_error"}

\* C15: the authenticate handler emits exactly one of authenticated and
\* authentication_error: one of them before its first await, and neither
\* when one of its lookups returns afterwards.
C15_OneAuthenticationResult ==
    /\ last.op = "authenticate"
          => Cardinality({k \in DOMAIN out : out[k].ev \in AuthEvents}) = 1
    /\ last.op \in {"authenticate.findOne", "authenticate.find"}
          => \A k \in DOMAIN out : out[k].ev \notin AuthEvents

\* The event each forwarding handler emits.
ForwardedAs(op) ==
    CASE op = "typing" -> "user_typing"
      [] op = "stop_typing" -> "user_stop_typing"
      [] OTHER -> op

\* C16: typing, stop_typing, video_call_offer and ice_candidate of a
\* registered session emit one event, to the connection registered for the
\* named recipient and carrying an identity registered to the sending
\* connection; when the recipient is not registered they emit nothing.
C16_ForwardedToRecipientOnly ==
    (/\ last.op \in {"typing", "stop_typing", "video_call_offer", "ice_candidate"}
     /\ last.info.result = "ok")
    => LET recipientInfo == MapGet(connectedUsers, last.info.recipientId)
       IN IF recipientInfo = NoEntry
          THEN out = <<>>
          ELSE /\ Len(out) = 1
               /\ out[1].to = recipientInfo.socket
               /\ out[1].ev = ForwardedAs(last.op)
               /\ MapGet(connectedUsers, out[1].arg.from).socket = last.sock

\* A registered session has just sent an offer to an identity registered on
\* another connection, while a third identity is registered too.
C16_Witness ==
    /\ last.op = "video_call_offer"
    /\ last.info.result = "ok"
    /\ MapGet(connectedUsers, last.info.recipientId).socket \notin {None, last.sock}
    /\ Len(connectedUsers) = 3

\* C17: video_call_answer emits video_call_answer, without a sender, to the
\* connection registered for callerId, whether the sending connection has a
\* session or not, and nothing when callerId is not registered.
C17_AnswerForwardedUnchecked ==
    last.op = "video_call_answer"
    => LET recipientInfo == MapGet(connectedUsers, last.info.recipientId)
       IN IF recipientInfo = NoEntry
          THEN out = <<>>
          ELSE out = <<Emit(recipientInfo.socket, "video_call_answer", [from |-> None])>>

\* A connection with no session has just answered a registered caller.
C17_Witness ==
    /\ last.op = "video_call_answer"
    /\ getUserInfoFromSocket(connectedUsers, last.sock) = NoUser
    /\ MapHas(connectedUsers, last.info.recipientId)

EmptyQueues == [g \in {"male", "female", "other"} |-> <<>>]

\* The entries {a, female, any} and {b, male, female}, and no other.
Scenario18 ==
    queues = [male |-> <<PairEntry("b", "female")>>,
              female |-> <<PairEntry("a", "any")>>,
              other |-> <<>>]

\* C18 as stated: with exactly the entries {a, female, any} and {b, male,
\* female} queued, a tick returns the pair (a, b), a first and b second, and
\* leaves the queue empty.
C18_ScenarioReturnsAB ==
    [][(Scenario18 /\ last'.op = "tick")
       => (last'.info.ids = <<"a", "b">> /\ queues' = EmptyQueues)]_vars

\* C18, amended: with exactly those two entries queued, a tick returns the
\* pair (b, a), b first (the male partition is scanned first) and a second,
\* and leaves the queue empty, so that getPair on the queue it leaves returns
\* none.
C18_ScenarioReturnsBA ==
    [][(Scenario18 /\ last'.op = "tick")
       => (/\ last'.info.ids = <<"b", "a">>
           /\ queues' = EmptyQueues
           /\ ~getPair(queues').found)]_vars

\* A tick has just matched b with a and emptied the queue.
C18_Witness ==
    /\ Matched
    /\ last.info.ids = <<"b", "a">>
    /\ queues = EmptyQueues
    /\ out[1].to = "s2" /\ out[1].arg.isInitiator

\* The positions of the entries of q, and the scan order on them.
Positions(q) == UNION {{<<g, i>> : i \in DOMAIN q[g]} : g \in DOMAIN q}

PartitionIndex(g) == CASE g = "male" -> 1 [] g = "female" -> 2 [] OTHER -> 3

Before(p, r) ==
    \/ PartitionIndex(p[1]) < PartitionIndex(r[1])
    \/ p[1] = r[1] /\ p[2] < r[2]

Earliest(S) == CHOOSE p \in S : \A r \in S : r = p \/ Before(p, r)

\* The entries that may be paired with the entry at p: another entry, whose
\* preference is any or the gender of p, in a partition p searches.
Partners(q, p) ==
    {r \in Positions(q) :
        /\ r # p
        /\ q[r[1]][r[2]].genderPreference \in {"any", q[p[1]][p[2]].gender}
        /\ q[p[1]][p[2]].genderPreference \in {"any", r[1]}}

MutuallyAccept(q, p, r) ==
    /\ q[p[1]][p[2]].genderPreference \in {"any", q[r[1]][r[2]].gender}
    /\ q[r[1]][r[2]].genderPreference \in {"any", q[p[1]][p[2]].gender}

C21_TwoCallMatched ==
    [][last'.op = "tick"
       => LET r == getPair(queues)
          IN IF r.found
             THEN /\ Len(out') = 2
                  /\ \A k \in 1..2 : /\ out'[k].ev = "callMatched"
                                     /\ out'[k].to = r.pair[k].socketId
                  /\ out'[1].arg.isInitiator /\ ~out'[2].arg.isInitiator
                  /\ out'[1].arg.room = out'[2].arg.room
             ELSE out' = <<>>]_vars

\* A tick has just matched entries of two connections.
C21_Witness ==
    /\ Matched
    /\ Len(out) = 2
    /\ out[1].to # out[2].to

\* C22: each callMatched event of a tick goes to the connection the registry
\* maps the matched identity to when the tick runs, whenever the identity is
\* registered.
C22_CallMatchedToRegisteredConnection ==
    [][last'.op = "tick"
       => LET r == getPair(queues)
          IN r.found =>
                \A k \in 1..2 :
                    MapHas(connectedUsers, r.pair[k].id)
                    => out'[k].to = MapGet(connectedUsers, r.pair[k].id).socket]_vars

\* C23: two ticks in a row that each match a pair allocate different room
\* identifiers, whatever happens to the clock between them.
C23_RoomsDiffer ==
    [][(/\ last.op = "tick" /\ last.info.result = "pair"
        /\ last'.op = "tick" /\ last'.info.result = "pair"
        /\ queues' # queues)
       => out'[1].arg.room # out[1].arg.room]_vars

\* C24: no enqueue raises an error: the handler that has fetched the user
\* record of a registered session always gets past addToQueue, whatever
\* gender the record has.
C24_EnqueueNeverThrows ==
    last.op \in {"joinCallQueue.findOne", "callEnded.findOne"}
    => last.info.result # "throw"

\* C25: when a message event has gone through, the Message it persisted
\* records as its conversation the Conversation the event resolved or created,
\* the one whose lastMessage now points to that Message.
C25_MessageRecordsItsConversation ==
    (last.op = "message.conversation.save" /\ last.info.result = "sent")
    => LET h == last.info.handler
       IN /\ ConversationById(h.conversation).lastMessage = h.messageId
          /\ messages[h.messageId].conversation = h.conversation

\* C26: when the handler of a message event finds that neither the
\* conversationId nor the recipient resolves, it ends there: message_error
\* goes to the sender and nothing else is emitted, the handler has written
\* nothing and the store is unchanged.
C26_UnresolvedMessageRejected ==
    [][(/\ last'.op = "message.getUserByUsername"
        /\ last'.info.handler.recipientUsername \notin Users)
       => /\ last'.info.result = "error"
          /\ out' = <<MessageError(last'.sock)>>
          /\ last'.info.handler.saved = <<>>
          /\ UNCHANGED Store]_vars

C26_Witness ==
    /\ last.op = "message.getUserByUsername"
    /\ last.info.result = "error"
    /\ last.info.handler.recipientUsername \notin Users
    /\ last.info.handler.conversationId = "cx"
    /\ ~sockets[last.sock].isGuest

SignalingEvents ==
    {"typing", "stop_typing", "video_call_offer", "video_call_answer", "ice_candidate"}

\* C27: a typing, stop_typing, video_call_offer, video_call_answer or
\* ice_candidate event leaves the connection registry, the call queue and the
\* persisted conversations and messages as they were.
C27_SignalingChangesNoState ==
    [][last'.op \in SignalingEvents
       => UNCHANGED <<connectedUsers, queues, conversations, messages>>]_vars

\* A registered sender that is queued has signalled, with a message stored.
C27_Witness ==
    /\ last.op \in SignalingEvents
    /\ last.info.result = "ok"
    /\ messages # <<>>
    /\ getUserInfoFromSocket(connectedUsers, last.sock) # NoUser
    /\ \E g \in DOMAIN queues : \E i \in DOMAIN queues[g] :
          queues[g][i].id = getUserInfoFromSocket(connectedUsers, last.sock).username
    /\ out # <<>>

\* C28: the disconnect of a connection leaves every identity that is
\* registered to another connection registered to that connection; so an
\* identity that authenticated on A and later on B stays registered to B when
\* A disconnects.
C28_DisconnectKeepsOtherSessions ==
    [][last'.op = "disconnect"
       => \A i \in DOMAIN connectedUsers :
             connectedUsers[i].socket # last'.sock
             => MapGet(connectedUsers', connectedUsers[i].username) = connectedUsers[i]]_vars

\* C29: once the disconnect of a connection has been processed, no entry of
\* the registry refers to that connection.
C29_NoEntryOfClosedConnection ==
    \A i \in DOMAIN connectedUsers : sockets[connectedUsers[i].socket].state # "closed"

\* C30: the sender identity attached to a forwarded typing, stop_typing,
\* video_call_offer or ice_candidate event is the identity under which the
\* sending connection authenticated last (socket.username).
C30_AttributedToLastAuthenticated ==
    (last.op \in {"typing", "stop_typing", "video_call_offer", "ice_candidate"}
     /\ out # <<>>)
    => out[1].arg.from = sockets[last.sock].username

\* C31: a message event stores a Message and fans it out only when the
\* sending identity is a participant of the conversation it resolved.
C31_SenderIsParticipant ==
    (/\ last.op \in {"message.save", "message.conversation.save"}
     /\ last.info.result \in {"await", "sent"})
    => LET h == last.info.handler
       IN h.username \in Range(ConversationById(h.conversation).participants)

\* C32: the two entries of every pair getPair returns accept each other: the
\* preference of the second is any or the gender of the first, and the
\* preference of the first is any or the gender of the second.
C32_PairMutuallyAcceptable ==
    LET r == getPair(queues)
    IN r.found => /\ r.pair[2].genderPreference \in {"any", r.pair[1].gender}
                  /\ r.pair[1].genderPreference \in {"any", r.pair[2].gender}

\* getPair returns two entries that each name the other's gender, past an
\* entry of the scanned partition that finds no match.
C32_Witness ==
    LET r == getPair(queues)
    IN /\ r.found
       /\ r.pair[1].genderPreference = r.pair[2].gender
       /\ r.pair[2].genderPreference = r.pair[1].gender
       /\ QueueLen(queues) = 3
       /\ r.at[1][2] > 1

\* C33: the call queue holds at most one entry per identity.
C33_OneEntryPerIdentity ==
    \A p, r \in Positions(queues) :
        queues[p[1]][p[2]].id = queues[r[1]][r[2]].id => p = r

\* No two distinct entries of the queue accept each other.
NoAcceptablePair ==
    ~\E p, r \in Positions(queues) : p # r /\ MutuallyAccept(queues, p, r)

\* C34: if from some point on only the tick runs (no entry is added or
\* removed by a session), the queue eventually holds no two entries that
\* accept each other, and stays so.
C34_TicksDrainAcceptablePairs ==
    (<>[](last.op = "tick")) => <>[]NoAcceptablePair

\* A tick has taken a pair out and left an entry that has nobody to match.
C34_Witness ==
    /\ last.op = "tick" /\ last.info.result = "pair"
    /\ QueueLen(queues) = 1
    /\ NoAcceptablePair

\* C35: an authenticate event whose token fails verification emits
\* authentication_error to the connection and nothing else, and leaves the
\* registry, the call queue and the connection's own session as they were.
C35_FailedVerificationChangesNothing ==
    [][(last'.op = "authenticate" /\ last'.info.result = "invalid")
       => /\ out' = <<Emit(last'.sock, "authentication_error", <<>>)>>
          /\ UNCHANGED <<sockets, connectedUsers, queues>>]_vars

\* A connection with a registered session and a queued entry has sent a bad
\* token.
C35_Witness ==
    /\ last.op = "authenticate" /\ last.info.result = "invalid"
    /\ getUserInfoFromSocket(connectedUsers, last.sock) # NoUser
    /\ \E p \in Positions(queues) : queues[p[1]][p[2]].socketId = last.sock

\* C36: the step of a successful authenticate that emits authenticated has
\* registered the session, and emits no new_message; the replay of missed
\* messages is a later step of a handler that step suspended, and it does not
\* emit authenticated.
C36_RegisteredThenAuthenticatedThenReplay ==
    [][/\ (last'.op = "authenticate" /\ last'.info.result = "ok")
          => /\ Len(out') = 1
             /\ out'[1].ev = "authenticated" /\ out'[1].to = last'.sock
             /\ MapHas(connectedUsers', sockets'[last'.sock].username)
             /\ MapGet(connectedUsers', sockets'[last'.sock].username).socket = last'.sock
       /\ last'.op = "authenticate.find"
          => /\ \E i \in DOMAIN pending :
                   /\ pending[i].kind = "authenticate" /\ pending[i].pc = "find"
                   /\ pending[i].sock = last'.sock
             /\ \A k \in DOMAIN out' : out'[k].ev # "authenticated"
       /\ \A i \in DOMAIN pending' :
             (/\ pending'[i].kind = "authenticate"
              /\ ~\E j \in DOMAIN pending :
                    /\ pending[j].kind = "authenticate"
                    /\ pending[j].sock = pending'[i].sock)
             => /\ last'.op = "authenticate" /\ last'.info.result = "ok"
                /\ last'.sock = pending'[i].sock]_vars

\* An authentication has replayed a stored message to its connection.
C36_Witness ==
    /\ Replayed
    /\ \E k \in DOMAIN out : out[k].ev = "new_message" /\ out[k].to = last.sock
    /\ MapGet(connectedUsers, last.info.username).socket = last.sock

====
